---- MODULE Spec2Model ----
(***************************************************************************)
(* Model of the clinic server monitor agent (src/agent.py): the cleanup of *)
(* the ledger file at startup, the probes of collect_system_info, the      *)
(* sample / persist / deliver / evaluate / sleep loop of main_loop, the    *)
(* two sinks send_data_to_server and send_data_to_sharepoint that          *)
(* asyncio.gather runs as two tasks, the threshold evaluation of           *)
(* check_thresholds_and_notify and the termination signal handler.         *)
(*                                                                         *)
(* A step of the model is what one task does between two suspension        *)
(* points (await) of the event loop.  Sink tasks are indexed by the tick   *)
(* that created them, because a task of an earlier tick can outlive its    *)
(* gather.  CancelledError is a BaseException: "except Exception" and      *)
(* "except aiohttp.ClientError" do not catch it.                           *)
(***************************************************************************)
EXTENDS Integers, Sequences, FiniteSets, TLC

----------------------------------------------------------------------------
(* Bounds of the model *)

MaxTicks == 2
MaxCount == 2

(* Configuration, src/agent.py lines 26-35 *)

MAX_RETRIES == 3
CPU_USAGE_THRESHOLD == 80
MEMORY_USAGE_THRESHOLD == 80
DISK_USAGE_THRESHOLD == 80
INTERVAL == 60

Ticks == 1..MaxTicks

(* Readings the probes of collect_system_info can report: CPU, memory and  *)
(* disk percentages and the static addresses.                              *)
ProbeReadings ==
    {<<80, 80, 80, << >> >>,
     <<95, 80, 80, <<"10.0.0.6">> >>,
     <<80, 95, 95, << >> >>,
     <<95, 95, 80, <<"10.0.0.5", "10.0.0.6">> >>}

computer_name == "clinic-01"

(* Process name and port of each monitored application, lines 45-51.  A    *)
(* name is the sequence of its pieces, so that a substring is a piece.     *)
APPLICATIONS ==
    [smartcare |-> [process_name |-> <<"SmartCareProcessName">>, port |-> 8080],
     sql_server |-> [process_name |-> <<"sqlservr">>, port |-> 1433],
     smartlink |-> [process_name |-> <<"SmartLinkProcessName">>, port |-> 3307],
     etims |-> [process_name |-> <<"E", "TIMSProcessName">>, port |-> 8000],
     tims |-> [process_name |-> <<"TIMSProcessName">>, port |-> 8089]]

None == [kind |-> "None"]

(* None in an address field of get_ip_addresses (lines 142-143); a string, *)
(* as every other value of those fields is.                                *)
NoAddress == "None"

(* What a probe of the host can fail with *)
Faults ==
    {"none", "net_io_counters", "cpu_percent", "virtual_memory", "disk_usage",
     "process_iter", "port_socket", "internal_ip", "static_ips", "external_ip"}

(* The host as the probes of one tick find it: the names of the running    *)
(* processes, the ports that accept a connection on localhost and the      *)
(* probe that fails.                                                       *)
Host(processes, ports, fault) ==
    [processes |-> processes, ports |-> ports, fault |-> fault]

SqlServerName == <<"SQLSERVR", ".EXE">>
SmartLinkName == <<"SmartLinkProcessName", ".exe">>
EtimsName == <<"E", "TIMSProcessName", ".exe">>
BrowserName == <<"chrome", ".exe">>

NormalHost == Host({SqlServerName, BrowserName}, {1433}, "none")

(* Process and port of an application found or not, independently *)
ApplicationHosts ==
    {Host({SqlServerName, SmartLinkName}, {1433, 8000}, "none"),
     Host({SqlServerName, BrowserName}, {1433, 3307}, "none"),
     Host({SmartLinkName, BrowserName}, {1433}, "none"),
     Host({SqlServerName, SmartLinkName}, {3307}, "none"),
     Host({EtimsName}, {8000, 8089}, "none"),
     Host({BrowserName}, {}, "none")}

FaultyHosts == {Host(NormalHost.processes, NormalHost.ports, f) : f \in Faults}

----------------------------------------------------------------------------
(* Pure helpers *)

(* Counters of the history of a call count up to a cap and stay there *)
IncTo(n, cap) == IF n < cap THEN n + 1 ELSE n
Inc(n) == IncTo(n, MaxCount)

Range(s) == {s[i] : i \in DOMAIN s}

(* The two texts swapped *)
RunningOrStopped_swapped(b) == IF b THEN "Stopped" ELSE "Running"

(* "Running" if status else "Stopped", lines 99-103 and 321-325 *)
RunningOrStopped(b) == IF b THEN "Running" ELSE "Stopped"

(* ', '.join(static_ips) *)
RECURSIVE JoinComma(_)
JoinComma(s) ==
    IF s = << >> THEN << >>
    ELSE IF Len(s) = 1 THEN <<s[1]>>
    ELSE <<s[1], ", ">> \o JoinComma(Tail(s))

(* str() of a non-negative integer, as a sequence of digit characters *)
Digit(d) ==
    CASE d = 0 -> "0" [] d = 1 -> "1" [] d = 2 -> "2" [] d = 3 -> "3"
      [] d = 4 -> "4" [] d = 5 -> "5" [] d = 6 -> "6" [] d = 7 -> "7"
      [] d = 8 -> "8" [] d = 9 -> "9"

RECURSIVE Str(_)
Str(n) == IF n < 10 THEN <<Digit(n)>> ELSE Str(n \div 10) \o <<Digit(n % 10)>>

(* datetime.fromtimestamp(ts).isoformat() *)
IsoFormat(ts) == <<"T">> \o Str(ts)

(* The text has the part as a contiguous piece: Python's "part in text" *)
Contains(text, part) ==
    \E i \in 1..(Len(text) - Len(part) + 1) :
        SubSeq(text, i, i + Len(part) - 1) = part

(* str.lower(), piece by piece *)
LowerPiece(piece) ==
    CASE piece = "SQLSERVR" -> "sqlservr"
      [] piece = ".EXE" -> ".exe"
      [] piece = "E" -> "e"
      [] piece = "SmartCareProcessName" -> "smartcareprocessname"
      [] piece = "SmartLinkProcessName" -> "smartlinkprocessname"
      [] piece = "TIMSProcessName" -> "timsprocessname"
      [] OTHER -> piece

lower(name) == [i \in DOMAIN name |-> LowerPiece(name[i])]

----------------------------------------------------------------------------
(* The probes of collect_system_info, lines 112-264 *)

(* Lines 112-120: some running process has the name as a substring,        *)
(* whatever the case of the letters.                                       *)
check_process_running(process_name, processes) ==
    \E name \in processes : Contains(lower(name), lower(process_name))

(* Lines 122-125 *)
check_port_open(port, ports) == port \in ports

(* The liveness that one of the two checks is enough for *)
status_either(process_running, port_open) == process_running \/ port_open

(* Line 134 *)
status(process_running, port_open) == process_running /\ port_open

(* Lines 127-137 *)
collect_application_status(host) ==
    [app_name \in DOMAIN APPLICATIONS |->
        [status |-> status(
            check_process_running(APPLICATIONS[app_name].process_name, host.processes),
            check_port_open(APPLICATIONS[app_name].port, host.ports)),
         process_name |-> APPLICATIONS[app_name].process_name]]

(* Lines 182-198: the failure is caught inside the function *)
get_external_ip(fault) ==
    IF fault = "external_ip" THEN "External IP not available" ELSE "203.0.113.7"

(* Lines 164-180: a failing ipconfig is caught inside the function *)
get_windows_static_ips(static, fault) ==
    IF fault = "static_ips" THEN << >> ELSE static

(* Lines 139-162: one try block around the three lookups, so a failure of  *)
(* the first leaves all three at their initial values.                     *)
get_ip_addresses(static, fault) ==
    IF fault = "internal_ip"
    THEN [internal_ip |-> NoAddress, external_ip |-> NoAddress, static_ips |-> << >>]
    ELSE [internal_ip |-> "192.168.1.10",
          external_ip |-> get_external_ip(fault),
          static_ips |-> get_windows_static_ips(static, fault)]

(* The dictionary of lines 236-250 *)
SystemInfo(cpu, mem, disk, ip_addresses, application_info, ts) ==
    [general_info |->
        [computer_name |-> computer_name,
         cpu_usage |-> cpu,
         memory_usage |-> mem,
         disk_usage |-> disk,
         network_data |-> [upload_speed_mbps |-> "0.00 Mbps",
                           download_speed_mbps |-> "0.00 Mbps"],
         ip_addresses |-> ip_addresses],
     application_info |-> application_info,
     timestamp |-> ts]

(* The probes whose exception nothing catches before the except of line    *)
(* 261                                                                     *)
Uncaught(fault) ==
    fault \in {"net_io_counters", "cpu_percent", "virtual_memory", "disk_usage",
               "process_iter", "port_socket"}

(* Lines 207-264: what collect_system_info returns on the host at time ts, *)
(* the probes reading cpu, memory, disk and static addresses.              *)
collect_system_info_result(reading, host, ts) ==
    IF Uncaught(host.fault)
    THEN None
    ELSE SystemInfo(reading[1], reading[2], reading[3],
                    get_ip_addresses(reading[4], host.fault),
                    collect_application_status(host), ts)

(* The 16 named values that write_to_csv (lines 91-108) and                *)
(* send_data_to_sharepoint (lines 313-330) both build from the snapshot.   *)
fields(data) ==
    LET general_info == data.general_info
    IN  [Title |-> <<"Server Status - ", general_info.computer_name>>,
         ComputerName |-> general_info.computer_name,
         CPUUsage |-> general_info.cpu_usage,
         MemoryUsage |-> general_info.memory_usage,
         DiskUsage |-> general_info.disk_usage,
         NetworkUpload |-> general_info.network_data.upload_speed_mbps,
         NetworkDownload |-> general_info.network_data.download_speed_mbps,
         SmartCareStatus |-> RunningOrStopped(data.application_info["smartcare"].status),
         SQLServerStatus |-> RunningOrStopped(data.application_info["sql_server"].status),
         SmartLinkStatus |-> RunningOrStopped(data.application_info["smartlink"].status),
         ETIMSStatus |-> RunningOrStopped(data.application_info["etims"].status),
         TIMSStatus |-> RunningOrStopped(data.application_info["tims"].status),
         InternalIP |-> general_info.ip_addresses.internal_ip,
         ExternalIP |-> general_info.ip_addresses.external_ip,
         StaticIPs |-> JoinComma(general_info.ip_addresses.static_ips),
         Timestamp |-> IsoFormat(data.timestamp)]

fieldnames ==
    <<"Title", "ComputerName", "CPUUsage", "MemoryUsage", "DiskUsage",
      "NetworkUpload", "NetworkDownload", "SmartCareStatus",
      "SQLServerStatus", "SmartLinkStatus", "ETIMSStatus",
      "TIMSStatus", "InternalIP", "ExternalIP", "StaticIPs", "Timestamp">>

(* writer.writeheader(): one cell of text per field name *)
header_row == [i \in DOMAIN fieldnames |-> <<fieldnames[i]>>]

(* The text the csv writer puts in a cell for a string value: nothing for  *)
(* None.                                                                   *)
cell(value) == IF value = NoAddress THEN << >> ELSE <<value>>

(* writer.writerow(row): the text of each of the 16 values, in the order   *)
(* of fieldnames.                                                          *)
row(data) ==
    LET f == fields(data)
    IN  <<f.Title, cell(f.ComputerName), Str(f.CPUUsage), Str(f.MemoryUsage),
          Str(f.DiskUsage), cell(f.NetworkUpload), cell(f.NetworkDownload),
          cell(f.SmartCareStatus), cell(f.SQLServerStatus), cell(f.SmartLinkStatus),
          cell(f.ETIMSStatus), cell(f.TIMSStatus), cell(f.InternalIP),
          cell(f.ExternalIP), f.StaticIPs, f.Timestamp>>

list_item(data) == [fields |-> fields(data)]

----------------------------------------------------------------------------
(* check_thresholds_and_notify and generate_notification *)

(* The list that takes the new message at its head *)
generate_notification_at_head(notifications, message) == <<message>> \o notifications

(* Lines 429-433 *)
generate_notification(notifications, message) == Append(notifications, message)

CpuMessage(v) == <<"CPU usage is above threshold: ">> \o Str(v) \o <<"%">>
MemoryMessage(v) == <<"Memory usage is above threshold: ">> \o Str(v) \o <<"%">>
DiskMessage(v) == <<"Disk usage is above threshold: ">> \o Str(v) \o <<"%">>
StaticIpMessage(ips) == <<"Static IP has changed: ">> \o JoinComma(ips)

(* Lines 435-437: the notifications whose text has the name as a substring *)
get_notifications(name, notifications) ==
    LET mentions(notification) == Contains(notification, <<name>>)
    IN  SelectSeq(notifications, mentions)

(* The comparison that also fires at the threshold *)
Exceeds_or_equal(value, threshold) == value >= threshold

Exceeds(value, threshold) == value > threshold

(* Line 379 assigns PREVIOUS_STATIC_IPS inside the function and the        *)
(* function has no global declaration, so the name is local to the         *)
(* function and still unbound when line 377 reads it.                      *)
PreviousStaticIpsIsLocal == TRUE

(* The effect of one call on the two module-level names, and whether the   *)
(* call raised.                                                            *)
check_thresholds_and_notify_result(info, notifications, previous) ==
    LET general_info == info.general_info
        static_ips == general_info.ip_addresses.static_ips
        n1 == IF Exceeds(general_info.cpu_usage, CPU_USAGE_THRESHOLD)
              THEN generate_notification(notifications, CpuMessage(general_info.cpu_usage))
              ELSE notifications
        n2 == IF Exceeds(general_info.memory_usage, MEMORY_USAGE_THRESHOLD)
              THEN generate_notification(n1, MemoryMessage(general_info.memory_usage))
              ELSE n1
        n3 == IF Exceeds(general_info.disk_usage, DISK_USAGE_THRESHOLD)
              THEN generate_notification(n2, DiskMessage(general_info.disk_usage))
              ELSE n2
    IN  IF PreviousStaticIpsIsLocal
        THEN [NOTIFICATIONS |-> n3, PREVIOUS_STATIC_IPS |-> previous,
              raised |-> "UnboundLocalError"]
        ELSE IF static_ips # previous
        THEN [NOTIFICATIONS |-> generate_notification(n3, StaticIpMessage(static_ips)),
              PREVIOUS_STATIC_IPS |-> static_ips,
              raised |-> "no"]
        ELSE [NOTIFICATIONS |-> n3, PREVIOUS_STATIC_IPS |-> previous,
              raised |-> "no"]

----------------------------------------------------------------------------
(* State *)

VARIABLES
    env,                  \* how the host and the two endpoints behave in this run
    host,                 \* the host as the probes of the current tick found it
    pc,                   \* where main_loop is
    tick,                 \* number of the current loop iteration
    system_info,          \* the local of main_loop
    signalled,            \* signal_handler has run
    csv_exists,           \* os.path.isfile(CSV_FILE_PATH)
    csv_age_hours,        \* hours since the ledger file was last modified
    csv_lines,            \* the lines of the ledger file
    PREVIOUS_STATIC_IPS,  \* module-level baseline
    NOTIFICATIONS,        \* module-level list
    srv,                  \* the send_data_to_server task of each tick
    sp,                   \* the send_data_to_sharepoint task of each tick
    log,                  \* what main_loop logged in the current tick
    stages                \* the calls main_loop made in the current tick, in order

vars == <<env, host, pc, tick, system_info, signalled, csv_exists, csv_age_hours,
          csv_lines,
          PREVIOUS_STATIC_IPS, NOTIFICATIONS, srv, sp, log, stages>>

(* What the POST of line 275 can end in: a status, an exception that is an *)
(* aiohttp.ClientError (connection refused, TLS failure), or one that is   *)
(* not (asyncio.TimeoutError of the session's total timeout).              *)
ServerResponses == {"200", "500", "ClientConnectorError", "TimeoutError"}

TokenResults == {"access_token", "error", "exception"}

RetryAfterHeaders == {"absent", "5", "date"}

SharepointResponses ==
    {[status |-> "201", retry_after |-> "absent"],
     [status |-> "500", retry_after |-> "absent"],
     [status |-> "ClientError", retry_after |-> "absent"]}
    \cup {[status |-> "429", retry_after |-> h] : h \in RetryAfterHeaders}

(* How a call of write_to_csv can end: the row is in the file; open()     *)
(* raises and no file is created; open() creates the file and the write    *)
(* raises when the buffer is flushed (the device is full).                 *)
WriteOutcomes == {"written", "open_raised", "write_raised"}

retention_days == 30

(* The ledger file a previous run of the program left behind, with its age *)
(* in hours at startup.                                                    *)
NoLedger == [exists |-> FALSE, age_hours |-> 0]

LedgerFiles ==
    {NoLedger} \cup {[exists |-> TRUE, age_hours |-> h] :
                        h \in {0, 24 * retention_days, 24 * retention_days + 12,
                               24 * (retention_days + 1)}}

(* timedelta.days of line 422: the whole days of the age *)
days(age_hours) == age_hours \div 24

PreviousRun ==
    <<header_row,
      row(collect_system_info_result(<<80, 80, 80, << >> >>, NormalHost, 0))>>

(* The behaviours of the surroundings that are explored: the probe         *)
(* readings and the state of the host, the answers of the central server,  *)
(* of the token provider and of the list endpoint, the outcomes of a write *)
(* to the ledger, the ledger file found at startup and the DEBUG_MODE of   *)
(* line 30, which is False unless the environment variable sets it.  Each  *)
(* run has one of them.                                                    *)
QuietEnvironment ==
    [readings |-> {<<95, 80, 80, <<"10.0.0.6">> >>},
     hosts |-> {NormalHost, Host(NormalHost.processes, NormalHost.ports, "cpu_percent")},
     server |-> {"200"},
     tokens |-> {"access_token"},
     sharepoint |-> {[status |-> "201", retry_after |-> "absent"]},
     writes |-> {"written", "open_raised"},
     ledgers |-> {NoLedger},
     DEBUG_MODE |-> TRUE]

Environments ==
    {[QuietEnvironment EXCEPT !.server = ServerResponses \ {"TimeoutError"}],
     [QuietEnvironment EXCEPT
        !.server = {"200", "TimeoutError"},
        !.sharepoint = {[status |-> "201", retry_after |-> "absent"],
                        [status |-> "429", retry_after |-> "absent"]}],
     [QuietEnvironment EXCEPT
        !.tokens = TokenResults, !.sharepoint = SharepointResponses],
     [QuietEnvironment EXCEPT !.readings = ProbeReadings],
     [QuietEnvironment EXCEPT !.hosts = ApplicationHosts],
     [QuietEnvironment EXCEPT !.hosts = FaultyHosts],
     [QuietEnvironment EXCEPT !.writes = WriteOutcomes, !.ledgers = LedgerFiles],
     [QuietEnvironment EXCEPT !.DEBUG_MODE = FALSE]}

NoServerTask ==
    [pc |-> "none", retries |-> 0, posts |-> 0, statuses |-> 0, sleeps |-> 0,
     wait_time |-> None, previous_wait |-> None, body |-> None,
     log |-> {}, outcome |-> "none", data |-> None]

NoSharepointTask ==
    [pc |-> "none", retries |-> 0, posts |-> 0, throttles |-> 0,
     retry_after |-> 0, waited |-> 0, header |-> "none", last |-> "none", first_payload |-> None, payload |-> None,
     log |-> {}, outcome |-> "none", data |-> None]

(* The module is loaded, lines 1-76: configuration read, logging set up    *)
Init ==
    /\ env \in Environments
    /\ host = None
    /\ pc = "Entry"
    /\ tick = 1
    /\ system_info = None
    /\ signalled = FALSE
    /\ \E ledger \in env.ledgers :
        /\ csv_exists = ledger.exists
        /\ csv_age_hours = ledger.age_hours
        /\ csv_lines = IF ledger.exists THEN PreviousRun ELSE << >>
    /\ PREVIOUS_STATIC_IPS = << >>
    /\ NOTIFICATIONS = << >>
    /\ srv = [t \in Ticks |-> NoServerTask]
    /\ sp = [t \in Ticks |-> NoSharepointTask]
    /\ log = {}
    /\ stages = << >>

InFlight(task) == task.pc \notin {"none", "done"}

(* The await that swallows the cancellation *)
AwaitFrom_cancel_caught(cancel_requested, next) == next

(* A task that reaches an await after signal_handler cancelled it gets     *)
(* CancelledError there, without waiting.  main_loop's "except Exception"  *)
(* (line 405) does not catch it, so the coroutine ends.                    *)
AwaitFrom(cancel_requested, next) ==
    IF cancel_requested THEN "ShuttingDown" ELSE next

Staged(names) == stages \o names
Logged(message) == log \cup {message}

(* A finished task that nothing awaits any more is dropped by the event    *)
(* loop; only how it ended is kept.                                        *)
released(task, none) ==
    [none EXCEPT !.pc = "done", !.outcome = task.outcome, !.log = task.log]

(* The gather of the current tick is still waiting for task t *)
awaited(t) == t = tick /\ pc = "Delivering"

finish(t, task, none) ==
    IF task.pc = "done" /\ ~awaited(t) THEN released(task, none) ELSE task

(* The loop without the except block: the exception ends main_loop *)
on_exception_propagates(cancel_requested) == "Crashed"

(* Lines 405-407: an exception raised in the try block of main_loop is     *)
(* logged and the loop awaits the interval sleep.                          *)
on_exception(cancel_requested) == AwaitFrom(cancel_requested, "Sleeping")

(* await asyncio.sleep(INTERVAL), lines 403 and 407 *)
SleepStage == IF AwaitFrom(signalled, "Sleeping") = "Sleeping"
              THEN <<"Sleeping">> ELSE << >>

----------------------------------------------------------------------------
(* send_data_to_server, lines 266-292 *)

IsClientError(r) == r \in {"ClientConnectorError"}

(* BACKOFF_FACTOR, line 29: 1.5 as a fraction *)
BACKOFF_FACTOR == [num |-> 3, den |-> 2]

RECURSIVE Pow(_, _)
Pow(base, exponent) == IF exponent = 0 THEN 1 ELSE base * Pow(base, exponent - 1)

(* The wait that grows by the factor each time instead of multiplying *)
times(base, exponent) == [num |-> base.num * exponent, den |-> base.den]

(* base ** exponent, line 286 *)
power(base, exponent) ==
    [num |-> Pow(base.num, exponent), den |-> Pow(base.den, exponent)]

(* The loop test that is off by one *)
while_condition_off_by_one(retries) == retries <= MAX_RETRIES

while_condition(retries) == retries < MAX_RETRIES

(* Line 270 and what follows it up to the next await: the POST of line     *)
(* 275, whose body is the snapshot itself (json=data), or line 292 after   *)
(* the loop.                                                               *)
server_loop(s) ==
    IF while_condition(s.retries)
    THEN [s EXCEPT !.pc = "awaiting", !.posts = IncTo(@, MAX_RETRIES + MaxCount),
                   !.body = s.data]
    ELSE [s EXCEPT !.pc = "done", !.outcome = "gave_up",
                   !.log = @ \cup {"critical: Max retries reached"}]

(* Lines 276-290: the response r to the POST in flight *)
server_response(s, r) ==
    IF r = "200"
    THEN [s EXCEPT !.pc = "done", !.outcome = "success",
                   !.log = @ \cup {"info: Data sent"}]
    ELSE IF r = "500"
    THEN server_loop([s EXCEPT !.statuses = Inc(@),
                               !.log = @ \cup {"warning: Failed to send"}])
    ELSE IF IsClientError(r)
    THEN [s EXCEPT !.pc = "backoff", !.retries = @ + 1,
                   !.wait_time = power(BACKOFF_FACTOR, s.retries + 1),
                   !.previous_wait = s.wait_time, !.sleeps = Inc(@),
                   !.log = @ \cup {"error: Retry"}]
    ELSE [s EXCEPT !.pc = "done", !.outcome = "raised"]

----------------------------------------------------------------------------
(* send_data_to_sharepoint, lines 294-360 *)

(* The lookup that falls back to no wait *)
headers_get_zero_default(header, default) == IF header = "absent" THEN "0" ELSE header

(* response.headers.get('Retry-After', '1') *)
headers_get(header, default) == IF header = "absent" THEN default ELSE header

(* int(): the strings it accepts and their values *)
IsIntLiteral(str) == str \in {"0", "1", "5"}
int(str) == CASE str = "0" -> 0 [] str = "1" -> 1 [] str = "5" -> 5

failed(s, message) ==
    [s EXCEPT !.pc = "done", !.outcome = "failed", !.log = @ \cup {message}]

(* Lines 296-342: from the entry of the coroutine to the await of the      *)
(* POST, for the result of the token acquisition.                          *)
sharepoint_call(s, token) ==
    IF token = "access_token"
    THEN [s EXCEPT !.pc = "awaiting", !.posts = IncTo(@, MaxCount + 1),
                   !.payload = list_item(s.data),
                   !.first_payload = IF s.posts = 0 THEN list_item(s.data) ELSE @]
    ELSE IF token = "error"
    THEN failed(s, "error: Failed to acquire token")
    ELSE failed(s, "exception: Error sending data to SharePoint")

(* Lines 343-354 *)
sharepoint_response(s, r) ==
    IF r.status = "201"
    THEN [s EXCEPT !.pc = "done", !.outcome = "success", !.last = r.status,
                   !.log = @ \cup {"info: Data sent"}]
    ELSE IF r.status = "429"
    THEN LET value == headers_get(r.retry_after, "1")
         IN  IF IsIntLiteral(value)
             THEN [s EXCEPT !.pc = "throttled", !.header = r.retry_after,
                            !.retry_after = int(value), !.waited = 0,
                            !.throttles = Inc(@), !.last = r.status,
                            !.log = @ \cup {"warning: Throttled"}]
             ELSE failed([s EXCEPT !.last = r.status],
                         "exception: Error sending data to SharePoint")
    ELSE IF r.status = "500"
    THEN failed([s EXCEPT !.last = r.status], "error: Failed to send")
    ELSE failed([s EXCEPT !.last = r.status],
                "exception: Error sending data to SharePoint")

(* Lines 349-350: the sleep is over, the coroutine calls itself *)
sharepoint_retry(s, token) ==
    sharepoint_call([s EXCEPT !.waited = s.retry_after, !.retries = Inc(@)], token)

----------------------------------------------------------------------------
(* main_loop, lines 381-407 *)

(* The test that lets None through *)
truthy_always(info) == TRUE

(* Line 388: if system_info *)
truthy(info) == info # None

(* Lines 439-447: with DEBUG_MODE a warning is logged; without it line 443 *)
(* calls getLogger on the logger object, which has no such attribute, and  *)
(* the AttributeError ends the program before the handlers are registered. *)
main_entry ==
    /\ pc = "Entry"
    /\ IF env.DEBUG_MODE
       THEN /\ log' = Logged("warning: Running in DEBUG MODE")
            /\ pc' = "Startup"
       ELSE /\ pc' = "Crashed"
            /\ UNCHANGED log
    /\ UNCHANGED <<env, host, tick, system_info, signalled, csv_exists,
                   csv_age_hours, csv_lines, PREVIOUS_STATIC_IPS, NOTIFICATIONS,
                   srv, sp, stages>>

(* Lines 416-427, called at line 450 before the loop starts: the ledger    *)
(* file is removed when the whole days since it was last modified are more *)
(* than retention_days; without a file os.path.getmtime raises and the     *)
(* error is logged.  Then asyncio.run starts main_loop (line 454).         *)
cleanup_old_csv_files ==
    /\ pc = "Startup"
    /\ IF ~csv_exists
       THEN /\ log' = Logged("error: Error during CSV file cleanup")
            /\ UNCHANGED <<csv_exists, csv_age_hours, csv_lines>>
       ELSE IF days(csv_age_hours) > retention_days
       THEN /\ csv_exists' = FALSE
            /\ csv_age_hours' = 0
            /\ csv_lines' = << >>
            /\ log' = Logged("info: Old CSV file deleted")
       ELSE UNCHANGED <<csv_exists, csv_age_hours, csv_lines, log>>
    /\ pc' = "Sampling"
    /\ stages' = <<"Sampling">>
    /\ UNCHANGED <<env, host, tick, system_info, signalled,
                   PREVIOUS_STATIC_IPS, NOTIFICATIONS, srv, sp>>

(* Line 386: collect_system_info returns a snapshot, or None when a probe  *)
(* raised.                                                                 *)
collect_system_info ==
    /\ pc = "Sampling"
    /\ \E reading \in env.readings, found \in env.hosts :
        LET result == collect_system_info_result(reading, found, tick)
        IN  /\ host' = found
            /\ system_info' = result
            /\ IF truthy(result)
               THEN /\ pc' = "Persisting"
                    /\ UNCHANGED <<log, stages>>
               ELSE /\ log' = Logged("error: System information is None")
                    /\ pc' = AwaitFrom(signalled, "Sleeping")
                    /\ stages' = Staged(SleepStage)
    /\ UNCHANGED <<env, tick, signalled, csv_exists, csv_age_hours, csv_lines,
                   PREVIOUS_STATIC_IPS, NOTIFICATIONS, srv, sp>>

(* Lines 392-395: gather wraps the two coroutines in tasks.  Tasks created *)
(* after the cancellation request are cancelled before they run.           *)
NewServerTask(data) ==
    IF signalled
    THEN [NoServerTask EXCEPT !.pc = "done", !.outcome = "cancelled", !.data = data]
    ELSE [NoServerTask EXCEPT !.pc = "start", !.data = data]

NewSharepointTask(data) ==
    IF signalled
    THEN [NoSharepointTask EXCEPT !.pc = "done", !.outcome = "cancelled", !.data = data]
    ELSE [NoSharepointTask EXCEPT !.pc = "start", !.data = data]

(* What main_loop does after a successful collection, up to its next       *)
(* await: the order of lines 389 and 392.                                  *)
AfterCollect == <<"Persisting", "Delivering">>

(* The append that loses the row *)
appended_row_lost(lines, file_exists, data) ==
    lines \o (IF file_exists THEN << >> ELSE <<header_row>>)

(* Lines 86-109: the lines of the file after the append *)
appended(lines, file_exists, data) ==
    lines \o (IF file_exists THEN << >> ELSE <<header_row>>) \o <<row(data)>>

(* Line 389 (write_to_csv, lines 78-110) and, when it returns, line 392.   *)
(* An OSError of line 87 or of the flush at the end of the with block is   *)
(* caught at line 405.                                                     *)
write_to_csv ==
    /\ pc = "Persisting"
    /\ \E outcome \in env.writes :
        IF outcome = "written"
        THEN /\ csv_lines' = appended(csv_lines, csv_exists, system_info)
             /\ csv_exists' = TRUE
             /\ csv_age_hours' = 0
             /\ srv' = [srv EXCEPT ![tick] = NewServerTask(system_info)]
             /\ sp' = [sp EXCEPT ![tick] = NewSharepointTask(system_info)]
             /\ pc' = AwaitFrom(signalled, "Delivering")
             /\ stages' = Staged(AfterCollect)
             /\ UNCHANGED log
        ELSE /\ log' = Logged("exception: Unexpected error in main loop")
             /\ pc' = on_exception(signalled)
             /\ stages' = Staged(<<"Persisting">> \o SleepStage)
             /\ IF outcome = "write_raised"
                THEN csv_exists' = TRUE /\ csv_age_hours' = 0
                ELSE UNCHANGED <<csv_exists, csv_age_hours>>
             /\ UNCHANGED <<csv_lines, srv, sp>>
    /\ UNCHANGED <<env, host, tick, system_info, signalled,
                   PREVIOUS_STATIC_IPS, NOTIFICATIONS>>

(* The first step of the task: line 268, the loop test, the POST *)
send_data_to_server_start(t) ==
    /\ srv[t].pc = "start"
    /\ srv' = [srv EXCEPT ![t] = finish(t, server_loop(srv[t]), NoServerTask)]
    /\ UNCHANGED <<env, host, pc, tick, system_info, signalled, csv_exists, csv_age_hours, csv_lines,
                   PREVIOUS_STATIC_IPS, NOTIFICATIONS, sp, log, stages>>

send_data_to_server_response(t) ==
    /\ srv[t].pc = "awaiting"
    /\ \E r \in env.server :
        srv' = [srv EXCEPT ![t] = finish(t, server_response(srv[t], r), NoServerTask)]
    /\ UNCHANGED <<env, host, pc, tick, system_info, signalled, csv_exists, csv_age_hours, csv_lines,
                   PREVIOUS_STATIC_IPS, NOTIFICATIONS, sp, log, stages>>

(* Line 290 returns: back to the loop test *)
send_data_to_server_wake(t) ==
    /\ srv[t].pc = "backoff"
    /\ srv' = [srv EXCEPT ![t] = finish(t, server_loop(srv[t]), NoServerTask)]
    /\ UNCHANGED <<env, host, pc, tick, system_info, signalled, csv_exists, csv_age_hours, csv_lines,
                   PREVIOUS_STATIC_IPS, NOTIFICATIONS, sp, log, stages>>

send_data_to_sharepoint_start(t) ==
    /\ sp[t].pc = "start"
    /\ \E token \in env.tokens :
        sp' = [sp EXCEPT ![t] = finish(t, sharepoint_call(sp[t], token), NoSharepointTask)]
    /\ UNCHANGED <<env, host, pc, tick, system_info, signalled, csv_exists, csv_age_hours, csv_lines,
                   PREVIOUS_STATIC_IPS, NOTIFICATIONS, srv, log, stages>>

send_data_to_sharepoint_response(t) ==
    /\ sp[t].pc = "awaiting"
    /\ \E r \in env.sharepoint :
        sp' = [sp EXCEPT ![t] = finish(t, sharepoint_response(sp[t], r), NoSharepointTask)]
    /\ UNCHANGED <<env, host, pc, tick, system_info, signalled, csv_exists, csv_age_hours, csv_lines,
                   PREVIOUS_STATIC_IPS, NOTIFICATIONS, srv, log, stages>>

send_data_to_sharepoint_wake(t) ==
    /\ sp[t].pc = "throttled"
    /\ \E token \in env.tokens :
        sp' = [sp EXCEPT ![t] = finish(t, sharepoint_retry(sp[t], token), NoSharepointTask)]
    /\ UNCHANGED <<env, host, pc, tick, system_info, signalled, csv_exists, csv_age_hours, csv_lines,
                   PREVIOUS_STATIC_IPS, NOTIFICATIONS, srv, log, stages>>

(* The gather that returns with the first task that completes *)
gathered_first_completed(server_task, sharepoint_task) ==
    server_task.pc = "done" \/ sharepoint_task.pc = "done"

(* Lines 392-395: the result of gather is ready when both tasks returned *)
gathered(server_task, sharepoint_task) ==
    server_task.pc = "done" /\ sharepoint_task.pc = "done"

(* Line 392: the await of gather ends when both tasks returned, or as soon *)
(* as one of them raised (return_exceptions is False); the exception is    *)
(* caught at line 405 and the other task is left running.                  *)
gather_returns ==
    /\ pc = "Delivering"
    /\ IF srv[tick].outcome = "raised" \/ sp[tick].outcome = "raised"
       THEN /\ log' = Logged("exception: Unexpected error in main loop")
            /\ pc' = on_exception(signalled)
            /\ stages' = Staged(SleepStage)
       ELSE /\ gathered(srv[tick], sp[tick])
            /\ pc' = "Evaluating"
            /\ UNCHANGED <<log, stages>>
    /\ srv' = [t \in Ticks |-> IF srv[t].pc = "done"
                                THEN released(srv[t], NoServerTask) ELSE srv[t]]
    /\ sp' = [t \in Ticks |-> IF sp[t].pc = "done"
                               THEN released(sp[t], NoSharepointTask) ELSE sp[t]]
    /\ UNCHANGED <<env, host, tick, system_info, signalled, csv_exists, csv_age_hours, csv_lines,
                   PREVIOUS_STATIC_IPS, NOTIFICATIONS>>

(* Line 398, then line 403, or lines 405-407 when the call raised *)
check_thresholds_and_notify ==
    /\ pc = "Evaluating"
    /\ LET r == check_thresholds_and_notify_result(
                    system_info, NOTIFICATIONS, PREVIOUS_STATIC_IPS)
       IN  /\ NOTIFICATIONS' = r.NOTIFICATIONS
           /\ PREVIOUS_STATIC_IPS' = r.PREVIOUS_STATIC_IPS
           /\ log' = IF r.raised = "no" THEN log
                     ELSE Logged("exception: Unexpected error in main loop")
           /\ pc' = IF r.raised = "no" THEN AwaitFrom(signalled, "Sleeping")
                     ELSE on_exception(signalled)
    /\ stages' = Staged(<<"Evaluating">> \o SleepStage)
    /\ UNCHANGED <<env, host, tick, system_info, signalled, csv_exists, csv_age_hours, csv_lines, srv, sp>>

(* The interval sleep is over: the next iteration of line 384 *)
next_tick ==
    /\ pc = "Sleeping"
    /\ tick < MaxTicks
    /\ tick' = tick + 1
    /\ pc' = "Sampling"
    /\ stages' = <<"Sampling">>
    /\ log' = {}
    /\ UNCHANGED <<env, host, system_info, signalled, csv_exists, csv_age_hours, csv_lines,
                   PREVIOUS_STATIC_IPS, NOTIFICATIONS, srv, sp>>

----------------------------------------------------------------------------
(* signal_handler, lines 409-414 *)

(* The handler as it runs while the event loop of asyncio.run is running.  *)
(* The positions where main_loop is suspended in an await; in the others   *)
(* it is running synchronous code, which the handler interrupts and which  *)
(* then runs on to the next await.                                         *)
Suspended(position) == position \in {"Sampling", "Delivering", "Sleeping"}

(* The cancellation that misses the tasks that are asleep *)
cancel_pending_requests(task, none) ==
    IF task.pc \in {"start", "awaiting"}
    THEN released([task EXCEPT !.outcome = "cancelled"], none)
    ELSE task

(* Lines 412-413: task.cancel() for every task of the loop; the task gets  *)
(* CancelledError at the await it is suspended in, which no except clause  *)
(* of the sinks catches.                                                   *)
cancel(task, none) ==
    IF InFlight(task)
    THEN released([task EXCEPT !.outcome = "cancelled"], none)
    ELSE task

signal_handler ==
    /\ ~signalled
    /\ pc \notin {"Entry", "Crashed", "Startup", "ShuttingDown"}
    /\ signalled' = TRUE
    /\ srv' = [t \in Ticks |-> cancel(srv[t], NoServerTask)]
    /\ sp' = [t \in Ticks |-> cancel(sp[t], NoSharepointTask)]
    /\ pc' = IF Suspended(pc) THEN AwaitFrom(TRUE, pc) ELSE pc
    /\ UNCHANGED <<env, host, tick, system_info, csv_exists, csv_age_hours, csv_lines,
                   PREVIOUS_STATIC_IPS, NOTIFICATIONS, log, stages>>

----------------------------------------------------------------------------

Next ==
    \/ main_entry
    \/ cleanup_old_csv_files
    \/ collect_system_info
    \/ write_to_csv
    \/ \E t \in Ticks : send_data_to_server_start(t)
    \/ \E t \in Ticks : send_data_to_server_response(t)
    \/ \E t \in Ticks : send_data_to_server_wake(t)
    \/ \E t \in Ticks : send_data_to_sharepoint_start(t)
    \/ \E t \in Ticks : send_data_to_sharepoint_response(t)
    \/ \E t \in Ticks : send_data_to_sharepoint_wake(t)
    \/ gather_returns
    \/ check_thresholds_and_notify
    \/ next_tick
    \/ signal_handler

Spec == Init /\ [][Next]_vars

(* The event loop runs every task that is ready, every sleep ends and      *)
(* every request is answered; nothing makes a signal arrive.               *)
MainStep ==
    \/ main_entry
    \/ cleanup_old_csv_files
    \/ collect_system_info
    \/ write_to_csv
    \/ gather_returns
    \/ check_thresholds_and_notify
    \/ next_tick

ServerStep(t) ==
    \/ send_data_to_server_start(t)
    \/ send_data_to_server_response(t)
    \/ send_data_to_server_wake(t)

SharepointStep(t) ==
    \/ send_data_to_sharepoint_start(t)
    \/ send_data_to_sharepoint_response(t)
    \/ send_data_to_sharepoint_wake(t)

Fairness ==
    /\ WF_vars(MainStep)
    /\ \A t \in Ticks : WF_vars(ServerStep(t))
    /\ \A t \in Ticks : WF_vars(SharepointStep(t))

FairSpec == Init /\ [][Next]_vars /\ Fairness

----------------------------------------------------------------------------
(* Properties *)

(* The record of the task still carries the history of its call *)
Held(task) == task.data # None

IsChangeMessage(message) == message[1] = "Static IP has changed: "

NumChangeMessages(notifications) ==
    Cardinality({i \in DOMAIN notifications : IsChangeMessage(notifications[i])})

(* The step in which main_loop runs check_thresholds_and_notify *)
EvaluateStep == pc = "Evaluating" /\ pc' # "Evaluating"

(* The notifications the step appended *)
Appended == SubSeq(NOTIFICATIONS', Len(NOTIFICATIONS) + 1, Len(NOTIFICATIONS'))

(* C1: when the central server answers a POST of send_data_to_server with  *)
(* a status other than 200, the call logs a warning and is over: it makes  *)
(* no further POST for that snapshot.                                      *)
C1_StatusIsTerminal ==
    \A t \in Ticks :
        (Held(srv[t]) /\ srv[t].statuses > 0) =>
            /\ "warning: Failed to send" \in srv[t].log
            /\ ~InFlight(srv[t])

(* C2: a call of send_data_to_sharepoint returns after a bounded number of *)
(* attempts, also when the list endpoint answers 429 to every request.     *)
C2_ThrottledSendReturns ==
    \A t \in Ticks : (sp[t].pc = "awaiting") ~> (sp[t].pc = "done")

(* C3: no failure of a sink raises into main_loop; after the gather of a   *)
(* tick main_loop goes on to check_thresholds_and_notify.                  *)
C3_SinksNeverRaise ==
    /\ \A t \in Ticks : srv[t].outcome # "raised" /\ sp[t].outcome # "raised"
    /\ (pc = "Sleeping" /\ "Delivering" \in Range(stages))
            => "Evaluating" \in Range(stages)

(* C4: check_thresholds_and_notify appends exactly one change notification *)
(* and sets the baseline to the snapshot's static addresses when they      *)
(* differ from the baseline, and appends none and keeps the baseline when  *)
(* they are equal.                                                         *)
C4_StaticIpChange ==
    [][EvaluateStep =>
        IF system_info.general_info.ip_addresses.static_ips # PREVIOUS_STATIC_IPS
        THEN /\ NumChangeMessages(Appended) = 1
             /\ PREVIOUS_STATIC_IPS' = system_info.general_info.ip_addresses.static_ips
        ELSE /\ NumChangeMessages(Appended) = 0
             /\ PREVIOUS_STATIC_IPS' = PREVIOUS_STATIC_IPS]_vars

(* C5: when a sink has issued a request for a snapshot, the ledger already *)
(* holds the row of that snapshot.                                         *)
C5_LedgerBeforeSinks ==
    \A t \in Ticks :
        /\ (Held(srv[t]) /\ srv[t].posts > 0) => row(srv[t].data) \in Range(csv_lines)
        /\ (Held(sp[t]) /\ sp[t].posts > 0) => row(sp[t].data) \in Range(csv_lines)

C5_Witness ==
    \E t \in Ticks :
        /\ Held(srv[t]) /\ srv[t].posts > 0
        /\ Held(sp[t]) /\ sp[t].posts > 0
        /\ row(sp[t].data) \in Range(csv_lines)

RetryAfterSeconds(header) == IF header = "absent" THEN 1 ELSE int(header)

(* C7: when the list endpoint answers 429 n times and then 201, there are  *)
(* exactly n retries, each issued after a wait of at least the Retry-After *)
(* of the preceding 429 (1 second when absent) and with the payload of the *)
(* first request, and the outcome is success.                              *)
C7_ThrottledRetry ==
    \A t \in Ticks :
        Held(sp[t]) =>
            /\ (sp[t].pc = "awaiting" /\ sp[t].retries >= 1) =>
                /\ sp[t].waited >= RetryAfterSeconds(sp[t].header)
                /\ sp[t].payload = sp[t].first_payload
                /\ sp[t].payload = list_item(sp[t].data)
            /\ (sp[t].pc = "awaiting" /\ sp[t].throttles < MaxCount) =>
                sp[t].posts = sp[t].throttles + 1
            /\ sp[t].last = "201" =>
                /\ sp[t].outcome = "success"
                /\ "info: Data sent" \in sp[t].log
                /\ sp[t].throttles < MaxCount => sp[t].posts = sp[t].throttles + 1

C7_Witness ==
    \E t \in Ticks :
        /\ Held(sp[t]) /\ sp[t].outcome = "success"
        /\ sp[t].throttles = 1 /\ sp[t].posts = 2
        /\ sp[t].header = "5" /\ sp[t].waited = 5

Metrics ==
    {[message |-> CpuMessage(system_info.general_info.cpu_usage),
      value |-> system_info.general_info.cpu_usage,
      threshold |-> CPU_USAGE_THRESHOLD],
     [message |-> MemoryMessage(system_info.general_info.memory_usage),
      value |-> system_info.general_info.memory_usage,
      threshold |-> MEMORY_USAGE_THRESHOLD],
     [message |-> DiskMessage(system_info.general_info.disk_usage),
      value |-> system_info.general_info.disk_usage,
      threshold |-> DISK_USAGE_THRESHOLD]}

(* C8: every run of check_thresholds_and_notify appends, for each of CPU,  *)
(* memory and disk, exactly one notification with the value when the value *)
(* is strictly greater than the threshold and none otherwise, whatever the *)
(* list already holds from earlier ticks.                                  *)
C8_LevelTriggered ==
    [][EvaluateStep =>
        /\ SubSeq(NOTIFICATIONS', 1, Len(NOTIFICATIONS)) = NOTIFICATIONS
        /\ \A m \in Metrics :
            /\ Contains(m.message, Str(m.value))
            /\ Cardinality({i \in DOMAIN Appended : Appended[i][1] = m.message[1]})
                  = IF m.value > m.threshold THEN 1 ELSE 0
            /\ Cardinality({i \in DOMAIN Appended : Appended[i] = m.message})
                  = IF m.value > m.threshold THEN 1 ELSE 0]_vars

C8_Witness ==
    /\ tick = 2
    /\ Cardinality({i \in DOMAIN NOTIFICATIONS : NOTIFICATIONS[i] = CpuMessage(95)}) = 2
    /\ \E i \in DOMAIN NOTIFICATIONS : NOTIFICATIONS[i] = MemoryMessage(95)

(* C9: when collect_system_info returns None, main_loop logs an error and  *)
(* goes to the interval sleep without writing the ledger, starting a sink  *)
(* or evaluating, and from that sleep the next tick starts.                *)
C9_FailedSamplingSkipsTick ==
    [][/\ (pc = "Sampling" /\ pc' \notin {"Sampling", "ShuttingDown"}
                /\ system_info' = None) =>
            /\ pc' = "Sleeping"
            /\ "error: System information is None" \in log'
            /\ UNCHANGED <<csv_exists, csv_lines, srv, sp,
                           NOTIFICATIONS, PREVIOUS_STATIC_IPS>>
       /\ (pc = "Sleeping" /\ system_info = None /\ pc' # pc) =>
            /\ pc' \in {"Sampling", "ShuttingDown"}
            /\ stages = <<"Sampling", "Sleeping">>
            /\ pc' = "Sampling" =>
                /\ tick' = tick + 1
                /\ UNCHANGED <<csv_exists, csv_lines, srv, sp,
                               NOTIFICATIONS, PREVIOUS_STATIC_IPS>>]_vars

C9_Witness ==
    /\ tick = 2
    /\ pc = "Sampling"
    /\ system_info = None
    /\ ~csv_exists

(* C10: after a termination signal, in whatever state it arrived, the loop *)
(* starts no new tick and no interval sleep; it goes to ShuttingDown, at   *)
(* the latest when the synchronous code it was running reaches an await,   *)
(* and stays there.                                                        *)
C10_ShutdownIsTerminal ==
    [][signalled' =>
        /\ pc' \in {"ShuttingDown", "Persisting", "Evaluating"}
        /\ tick' = tick
        /\ signalled =>
            /\ pc' \in {pc, "ShuttingDown"}
            /\ \A t \in Ticks : ~InFlight(srv'[t]) /\ ~InFlight(sp'[t])]_vars

C10_Witness ==
    /\ signalled
    /\ pc = "ShuttingDown"
    /\ stages = <<"Sampling", "Persisting", "Delivering", "Evaluating">>

(* C11: when a tick begins sampling, no sink task that an earlier tick     *)
(* started is still in flight (request pending, backoff sleep or           *)
(* throttling wait).                                                       *)
C11_TicksNeverOverlap ==
    (pc = "Sampling" /\ tick > 1) =>
        \A t \in Ticks : t < tick => ~InFlight(srv[t]) /\ ~InFlight(sp[t])

(* C12: every notification that check_thresholds_and_notify emitted for a  *)
(* snapshot of this host is in the result of get_notifications for the     *)
(* name of this host.                                                      *)
C12_NotificationsCarryHost ==
    \A i \in DOMAIN NOTIFICATIONS :
        NOTIFICATIONS[i] \in Range(get_notifications(computer_name, NOTIFICATIONS))

(* C13: the ledger file, when it exists, starts with the header row and    *)
(* has no other header row after it.                                       *)
C13_HeaderExactlyOnce ==
    csv_exists =>
        /\ Len(csv_lines) >= 1
        /\ csv_lines[1] = header_row
        /\ \A i \in 2..Len(csv_lines) : csv_lines[i] # header_row

(* Some running process of the host has the process name of the            *)
(* application in its name, letter case ignored.                           *)
MatchingProcessRuns(app_name) ==
    \E name \in host.processes :
        Contains(lower(name), lower(APPLICATIONS[app_name].process_name))

PortAccepts(app_name) == APPLICATIONS[app_name].port \in host.ports

(* C14: the snapshot has one entry per application of the registry, and    *)
(* the liveness of an application is true exactly when a matching process  *)
(* runs and its port accepts a connection; the ledger shows Running for    *)
(* true and Stopped for false.                                             *)
C14_LivenessIsProcessAndPort ==
    system_info # None =>
        /\ DOMAIN system_info.application_info = DOMAIN APPLICATIONS
        /\ \A app_name \in DOMAIN APPLICATIONS :
            system_info.application_info[app_name].status
                <=> (MatchingProcessRuns(app_name) /\ PortAccepts(app_name))
        /\ fields(system_info).SmartLinkStatus =
              IF MatchingProcessRuns("smartlink") /\ PortAccepts("smartlink")
              THEN "Running" ELSE "Stopped"

C14_Witness ==
    /\ pc = "Persisting"
    /\ MatchingProcessRuns("sql_server") /\ PortAccepts("sql_server")
    /\ system_info.application_info["sql_server"].status
    /\ MatchingProcessRuns("smartlink") /\ ~PortAccepts("smartlink")
    /\ ~system_info.application_info["smartlink"].status
    /\ ~MatchingProcessRuns("etims") /\ PortAccepts("etims")
    /\ ~system_info.application_info["etims"].status

(* C15: for a snapshot that both sinks have posted, the body sent to the   *)
(* central server has the same fields with the same values as the fields   *)
(* of the list item sent to the list endpoint.                             *)
C15_SameFieldSet ==
    \A t \in Ticks :
        (Held(srv[t]) /\ srv[t].posts > 0 /\ Held(sp[t]) /\ sp[t].posts > 0) =>
            /\ DOMAIN srv[t].body = DOMAIN sp[t].payload.fields
            /\ srv[t].body = sp[t].payload.fields

(* Reading the cells of a ledger row back *)
DigitValue(c) ==
    CASE c = "0" -> 0 [] c = "1" -> 1 [] c = "2" -> 2 [] c = "3" -> 3
      [] c = "4" -> 4 [] c = "5" -> 5 [] c = "6" -> 6 [] c = "7" -> 7
      [] c = "8" -> 8 [] c = "9" -> 9

RECURSIVE ParseInt(_)
ParseInt(text) ==
    IF Len(text) = 1 THEN DigitValue(text[1])
    ELSE 10 * ParseInt(SubSeq(text, 1, Len(text) - 1)) + DigitValue(text[Len(text)])

ParseText(text) == IF text = << >> THEN NoAddress ELSE text[1]

ParseList(text) ==
    LET entry(piece) == piece # ", "
    IN  SelectSeq(text, entry)

ParseIso(text) == ParseInt(Tail(text))

ParseRow(line) ==
    [computer_name |-> ParseText(line[2]),
     cpu_usage |-> ParseInt(line[3]),
     memory_usage |-> ParseInt(line[4]),
     disk_usage |-> ParseInt(line[5]),
     upload_speed_mbps |-> ParseText(line[6]),
     download_speed_mbps |-> ParseText(line[7]),
     smartcare |-> line[8] = <<"Running">>,
     sql_server |-> line[9] = <<"Running">>,
     smartlink |-> line[10] = <<"Running">>,
     etims |-> line[11] = <<"Running">>,
     tims |-> line[12] = <<"Running">>,
     internal_ip |-> ParseText(line[13]),
     external_ip |-> ParseText(line[14]),
     static_ips |-> ParseList(line[15]),
     timestamp |-> ParseIso(line[16])]

(* The values of a snapshot that the ledger keeps *)
Kept(data) ==
    [computer_name |-> data.general_info.computer_name,
     cpu_usage |-> data.general_info.cpu_usage,
     memory_usage |-> data.general_info.memory_usage,
     disk_usage |-> data.general_info.disk_usage,
     upload_speed_mbps |-> data.general_info.network_data.upload_speed_mbps,
     download_speed_mbps |-> data.general_info.network_data.download_speed_mbps,
     smartcare |-> data.application_info["smartcare"].status,
     sql_server |-> data.application_info["sql_server"].status,
     smartlink |-> data.application_info["smartlink"].status,
     etims |-> data.application_info["etims"].status,
     tims |-> data.application_info["tims"].status,
     internal_ip |-> data.general_info.ip_addresses.internal_ip,
     external_ip |-> data.general_info.ip_addresses.external_ip,
     static_ips |-> data.general_info.ip_addresses.static_ips,
     timestamp |-> data.timestamp]

LastLine == csv_lines[Len(csv_lines)]

Less(a, b) == a.num * b.den < b.num * a.den

(* BACKOFF_FACTOR multiplied k times with itself *)
FactorToThe(k) ==
    [num |-> Pow(BACKOFF_FACTOR.num, k), den |-> Pow(BACKOFF_FACTOR.den, k)]

(* C17: the backoff sleep of send_data_to_server after the k-th transport  *)
(* failure, the wait before retry attempt k, lasts BACKOFF_FACTOR^k        *)
(* seconds, and with BACKOFF_FACTOR > 1 it is longer than the wait before  *)
(* it in the same call.                                                    *)
C17_BackoffWait ==
    \A t \in Ticks :
        (Held(srv[t]) /\ srv[t].pc = "backoff") =>
            /\ srv[t].wait_time = FactorToThe(srv[t].retries)
            /\ srv[t].statuses = 0 => srv[t].wait_time = FactorToThe(srv[t].posts)
            /\ (srv[t].retries > 1 /\ BACKOFF_FACTOR.num > BACKOFF_FACTOR.den) =>
                /\ srv[t].previous_wait = FactorToThe(srv[t].retries - 1)
                /\ Less(srv[t].previous_wait, srv[t].wait_time)

C17_Witness ==
    \E t \in Ticks :
        /\ Held(srv[t]) /\ srv[t].pc = "backoff"
        /\ srv[t].posts = 2 /\ srv[t].statuses = 0
        /\ srv[t].previous_wait = [num |-> 3, den |-> 2]
        /\ srv[t].wait_time = [num |-> 9, den |-> 4]

(* What the probes would have returned on the same host with no probe      *)
(* failing                                                                 *)
Probed(reading) ==
    collect_system_info_result(reading, [host EXCEPT !.fault = "none"],
                               system_info.timestamp)

(* C18: whichever single probe fails, collect_system_info returns a        *)
(* snapshot, and every field of it other than the field of the failed      *)
(* probe has its probed value.                                             *)
C18_ProbesIndependent ==
    host # None =>
        /\ system_info # None
        /\ \E reading \in env.readings :
            LET got == system_info.general_info
                probed == Probed(reading).general_info
            IN  /\ system_info.application_info = Probed(reading).application_info
                /\ host.fault # "cpu_percent" => got.cpu_usage = probed.cpu_usage
                /\ host.fault # "virtual_memory" => got.memory_usage = probed.memory_usage
                /\ host.fault # "disk_usage" => got.disk_usage = probed.disk_usage
                /\ host.fault # "internal_ip" =>
                    got.ip_addresses.internal_ip = probed.ip_addresses.internal_ip
                /\ host.fault # "external_ip" =>
                    got.ip_addresses.external_ip = probed.ip_addresses.external_ip
                /\ host.fault # "static_ips" =>
                    got.ip_addresses.static_ips = probed.ip_addresses.static_ips

(* C19: send_data_to_server is in a backoff sleep only while its count of  *)
(* failed attempts is below MAX_RETRIES; after the failure that brings the *)
(* count to MAX_RETRIES it gives up without sleeping.                      *)
C19_NoSleepBeforeGivingUp ==
    \A t \in Ticks :
        (Held(srv[t]) /\ srv[t].pc = "backoff") => srv[t].retries < MAX_RETRIES

(* C20: a tick that called write_to_csv, in which no sink raised and that   *)
(* reached the interval sleep, went through Persisting, Delivering and     *)
(* Evaluating, once each and in this order.                                *)
C20_StagesProceed ==
    (pc = "Sleeping" /\ "Persisting" \in Range(stages)
            /\ srv[tick].outcome # "raised") =>
        stages = <<"Sampling", "Persisting", "Delivering", "Evaluating", "Sleeping">>

(* C21: the two sinks of a tick are in flight together, and                *)
(* check_thresholds_and_notify of the tick runs only when neither sink of  *)
(* that tick is in flight any more.                                        *)
C21_EvaluationAfterBothSinks ==
    [][/\ pc' = "Evaluating" => ~InFlight(srv'[tick']) /\ ~InFlight(sp'[tick'])
       /\ EvaluateStep => ~InFlight(srv[tick]) /\ ~InFlight(sp[tick])
       /\ (pc = "Delivering" /\ pc' = "Evaluating") =>
            /\ srv[tick].pc = "done" /\ sp[tick].pc = "done"
            /\ srv[tick].outcome \in {"success", "gave_up"}
            /\ sp[tick].outcome \in {"success", "failed"}]_vars

C21_Witness ==
    /\ pc = "Evaluating"
    /\ srv[tick].outcome = "gave_up"
    /\ sp[tick].outcome = "success"
    /\ "Delivering" \in Range(stages)

(* A sink task sends a request in this step *)
Posts(task, after) == after.pc = "awaiting" /\ (task.pc # "awaiting" \/ after.posts # task.posts)

(* C22: the step of the termination signal leaves no sink task in flight,  *)
(* whether it was waiting for a response, in a backoff sleep or in a       *)
(* Retry-After wait; after the signal no sink sends a request; a call of   *)
(* write_to_csv that the signal interrupted still ends as it would have    *)
(* without the signal, with the row of the snapshot as the last line when  *)
(* the write succeeds.                                                     *)
C22_SignalCancelsSinks ==
    [][signalled' =>
        /\ \A t \in Ticks :
            /\ ~InFlight(srv'[t]) /\ ~InFlight(sp'[t])
            /\ ~Posts(srv[t], srv'[t]) /\ ~Posts(sp[t], sp'[t])
            /\ (~signalled /\ InFlight(srv[t])) => srv'[t].outcome = "cancelled"
            /\ (~signalled /\ InFlight(sp[t])) => sp'[t].outcome = "cancelled"
        /\ (signalled /\ pc = "Persisting") =>
            \/ /\ csv_lines' = appended(csv_lines, csv_exists, system_info)
               /\ csv_exists'
            \/ /\ csv_lines' = csv_lines
               /\ "exception: Unexpected error in main loop" \in log']_vars

C22_Witness ==
    /\ signalled
    /\ pc = "ShuttingDown"
    /\ stages = <<"Sampling", "Persisting", "Delivering">>
    /\ tick = 2
    /\ sp[1].outcome = "cancelled" /\ "warning: Throttled" \in sp[1].log
    /\ Len(csv_lines) = 3
    /\ LastLine = row(system_info)

MainLoopError == "exception: Unexpected error in main loop"

(* main_loop catches an exception in this step *)
CatchStep == MainLoopError \notin log /\ MainLoopError \in log'

(* C23: an error raised by write_to_csv, by the gather of the sinks or by  *)
(* check_thresholds_and_notify is logged by main_loop, nothing more of the *)
(* tick runs, the loop enters the interval sleep once and from it goes to  *)
(* the next tick; only a termination signal ends the loop.                 *)
C23_TickErrorIsCaught ==
    [][/\ CatchStep =>
            /\ pc \in {"Persisting", "Delivering", "Evaluating"}
            /\ pc' = IF signalled THEN "ShuttingDown" ELSE "Sleeping"
            /\ ~signalled =>
                /\ stages'[Len(stages')] = "Sleeping"
                /\ Cardinality({i \in DOMAIN stages' : stages'[i] = "Sleeping"}) = 1
            /\ pc = "Persisting" =>
                /\ "Delivering" \notin Range(stages')
                /\ UNCHANGED <<srv, sp>>
            /\ pc \in {"Persisting", "Delivering"} =>
                /\ "Evaluating" \notin Range(stages')
                /\ UNCHANGED <<NOTIFICATIONS, PREVIOUS_STATIC_IPS>>
       /\ (pc = "Sleeping" /\ MainLoopError \in log /\ pc' # pc) =>
            /\ pc' \in {"Sampling", "ShuttingDown"}
            /\ pc' = "Sampling" => tick' = tick + 1
       /\ pc' = "ShuttingDown" => signalled'
       /\ pc' = "Crashed" => pc \in {"Entry", "Crashed"}]_vars

C23_Witness ==
    /\ tick = 2
    /\ pc = "Sleeping"
    /\ MainLoopError \in log
    /\ stages = <<"Sampling", "Persisting", "Delivering", "Sleeping">>
    /\ srv[1].outcome = "raised"
    /\ srv[2].outcome = "raised"

(* The probe failures after which the external address of the host is not *)
(* determined                                                              *)
ExternalUndetermined == host.fault \in {"internal_ip", "external_ip"}

(* C24: in a snapshot the external address is never None, and it is the    *)
(* text 'External IP not available' whenever the collection could not      *)
(* determine it, also when the internal-address lookup failed.             *)
C24_ExternalIpSentinel ==
    system_info # None =>
        /\ system_info.general_info.ip_addresses.external_ip # NoAddress
        /\ ExternalUndetermined =>
            system_info.general_info.ip_addresses.external_ip
                = "External IP not available"

(* C25: a step changes NOTIFICATIONS or PREVIOUS_STATIC_IPS only when it   *)
(* is the step of check_thresholds_and_notify, and the list after any step *)
(* starts with the list before it.                                         *)
C25_AgentStateFrame ==
    [][/\ Len(NOTIFICATIONS') >= Len(NOTIFICATIONS)
       /\ SubSeq(NOTIFICATIONS', 1, Len(NOTIFICATIONS)) = NOTIFICATIONS
       /\ (NOTIFICATIONS' # NOTIFICATIONS
                \/ PREVIOUS_STATIC_IPS' # PREVIOUS_STATIC_IPS) => EvaluateStep]_vars

C25_Witness ==
    /\ tick = 2
    /\ pc = "Sleeping"
    /\ NOTIFICATIONS = <<CpuMessage(95), MemoryMessage(95), DiskMessage(95)>>

(* The step in which cleanup_old_csv_files runs *)
CleanupStep == pc = "Startup" /\ pc' # "Startup"

(* C26: cleanup_old_csv_files removes the ledger file when the time since  *)
(* its last modification is more than retention_days days and leaves it as *)
(* it is otherwise; without a file it logs an error and returns.           *)
C26_RetentionWindow ==
    [][CleanupStep =>
        /\ pc' = "Sampling"
        /\ ~csv_exists =>
            /\ "error: Error during CSV file cleanup" \in log'
            /\ UNCHANGED <<csv_exists, csv_lines>>
        /\ (csv_exists /\ csv_age_hours > 24 * retention_days) =>
            ~csv_exists' /\ csv_lines' = << >>
        /\ (csv_exists /\ csv_age_hours <= 24 * retention_days) =>
            UNCHANGED <<csv_exists, csv_age_hours, csv_lines>>]_vars

(* C27: when every request is answered and no termination signal arrives,  *)
(* a tick that starts sampling reaches the interval sleep.                 *)
C27_TickProgress ==
    (pc = "Sampling") ~> (pc = "Sleeping" \/ signalled)

(* C28: with DEBUG_MODE off, as it is by default, the entry sequence of    *)
(* the program raises nothing before main_loop starts.                     *)
C28_StartupReachesLoop ==
    ~env.DEBUG_MODE => pc # "Crashed"

====
